---- MODULE Spec2Model ----
(***************************************************************************)
(* A model of the Pac-Man simulator: the game loop of game_runner.py       *)
(* (Game.run, Game.handle_input, Game.update, Game.lose_life,              *)
(* Game.check_win) and the ghost controllers of controls.py.               *)
(*                                                                         *)
(* Vectors and tiles are pairs <<x, y>>.  Positions are in pixels, a tile  *)
(* is TILE pixels wide.  Collaborators that are not part of the two source *)
(* files (the actor, the timers, the constants, the vector helpers) follow *)
(* their contract in the specification.                                    *)
(***************************************************************************)
EXTENDS Integers, Sequences, FiniteSets, TLC

VARIABLES pc, grid, lives, score, dot_counter, lost_life, timers,
          player, ghosts, last

vars == <<pc, grid, lives, score, dot_counter, lost_life, timers,
          player, ghosts, last>>

(***************************************************************************)
(* Bounds of the model.                                                    *)
(***************************************************************************)
\* the 'lives' configuration is drawn from 0..MaxLives
MaxLives == 2
\* a controller on its own is driven through at most MaxOps calls
MaxOps == 4
\* dot_counter is driven up to MaxDots when the activation rules are exercised
MaxDots == 61

(***************************************************************************)
(* Constants of game_constants / globals.                                  *)
(***************************************************************************)
WALL == "wall"
DOOR == "door"
EMPTY == "empty"
DOT == "dot"
BOOST == "boost"
BAD_TILES == {WALL, DOOR}
FRIGHT == "fright"
NORMAL == "normal"

None == <<>>
ZERO == <<0, 0>>

TILE == 4
DEFAULT_SPEED == 4
START_TIME == 1
RELEASE_TIME == 1
BOOST_TIME == 3
MODE_TIME == 3
HOME_TIME == 2
DOT_SCORE == 10
BOOST_SCORE == 50
GHOST_SCORE == <<200, 400, 800, 1600>>

DIRECTION_ORDER == <<"up", "left", "down", "right">>
DIRECTION(key) ==
    CASE key = "up" -> <<0, -1>>
      [] key = "left" -> <<-1, 0>>
      [] key = "down" -> <<0, 1>>
      [] key = "right" -> <<1, 0>>
      [] OTHER -> None

Keys == {"up", "left", "down", "right"}

\* the map: row y (from 0) is DEFAULT_GRID[y + 1], column x is its element x + 1
DEFAULT_GRID ==
    << <<WALL,  WALL,  WALL, WALL,  WALL,  WALL, WALL>>,
       <<EMPTY, BOOST, DOT,  EMPTY, EMPTY, EMPTY, WALL>>,
       <<WALL,  EMPTY, WALL, DOOR,  WALL,  DOT,  WALL>>,
       <<WALL,  WALL,  EMPTY, EMPTY, EMPTY, WALL, WALL>>,
       <<WALL,  WALL,  WALL, WALL,  WALL,  WALL, WALL>> >>

GridH == Len(DEFAULT_GRID)
GridW == Len(DEFAULT_GRID[1])

GHOSTS == 1..4
Blinky == 1
Pinky == 2
Inky == 3
Clyde == 4

GHOST_POS == << <<12, 4>>, <<12, 12>>, <<8, 12>>, <<16, 12>> >>
DEFAULT_POS == <<12, 4>>
HOME_POS == <<12, 12>>
PLAYER_POS == <<4, 8>>

(***************************************************************************)
(* Vector helpers (vector.py, helpers.py).                                 *)
(***************************************************************************)
Add(a, b) == <<a[1] + b[1], a[2] + b[2]>>
Sub(a, b) == <<a[1] - b[1], a[2] - b[2]>>
Neg(a) == <<-a[1], -a[2]>>
Scale(k, a) == <<k * a[1], k * a[2]>>

\* straight-line distance, compared through its square
grid_distance(a, b) == (a[1] - b[1]) * (a[1] - b[1]) + (a[2] - b[2]) * (a[2] - b[2])

within_grid(t) == t[1] >= 0 /\ t[1] < GridW /\ t[2] >= 0 /\ t[2] < GridH

TileAt(g, t) == g[t[2] + 1][t[1] + 1]

SetTile(g, t, kind) == [g EXCEPT ![t[2] + 1][t[1] + 1] = kind]

StepToward(c, target, s) ==
    IF target >= c THEN (IF c + s > target THEN target ELSE c + s)
    ELSE (IF c - s < target THEN target ELSE c - s)

\* Vector.lerp: move towards target by at most s on each axis
Lerp(p, target, s) == <<StepToward(p[1], target[1], s), StepToward(p[2], target[2], s)>>

(***************************************************************************)
(* Actor (game_state.py): position, direction, speed, colour.              *)
(***************************************************************************)
NewActor(pos) == [position |-> pos, direction |-> ZERO, speed |-> DEFAULT_SPEED,
                  colour |-> NORMAL]

ActorTile(a) == <<a.position[1] \div TILE, a.position[2] \div TILE>>

Passable(g, t) == within_grid(t) /\ TileAt(g, t) \notin BAD_TILES

\* accept the requested direction only if the tile ahead is passable
ActorChangeDirection(a, g, d) ==
    IF d = None \/ ~Passable(g, Add(ActorTile(a), d)) THEN a
    ELSE [a EXCEPT !.direction = d,
                   !.position = <<IF d[1] = 0 THEN TILE * ActorTile(a)[1] ELSE @[1],
                                  IF d[2] = 0 THEN TILE * ActorTile(a)[2] ELSE @[2]>>]

\* the tile the leading edge of the actor's rectangle enters at position p
LeadTile(p, d) ==
    <<(IF d[1] > 0 THEN p[1] + TILE - 1 ELSE p[1]) \div TILE,
      (IF d[2] > 0 THEN p[2] + TILE - 1 ELSE p[2]) \div TILE>>

\* advance one tick, stopping at impassable tiles
ActorUpdate(a, g) ==
    LET p == Add(a.position, Scale(a.speed, a.direction))
    IN IF a.direction = ZERO \/ ~Passable(g, LeadTile(p, a.direction)) THEN a
       ELSE [a EXCEPT !.position = p]

ActorReset(a, pos) == [a EXCEPT !.position = pos, !.direction = ZERO]

ActorResetDirection(a) == [a EXCEPT !.direction = ZERO]

\* pygame.Rect.colliderect of two TILE x TILE rectangles
Colliderect(p, q) ==
    /\ p[1] < q[1] + TILE /\ q[1] < p[1] + TILE
    /\ p[2] < q[2] + TILE /\ q[2] < p[2] + TILE

(***************************************************************************)
(* Timers (game_state.py).                                                 *)
(***************************************************************************)
NewTimers == [start_timer |-> START_TIME, release_timer |-> 0, boost_timer |-> 0,
              boost_done |-> FALSE, boost_level |-> 0, mode_timer |-> 0,
              mode |-> "scatter"]

\* true while the round has not started; counts the start gate down
CheckStart(t) == t.start_timer > 0

AfterCheckStart(t) ==
    IF t.start_timer > 0 THEN [t EXCEPT !.start_timer = @ - 1] ELSE t

TimersUpdate(t) ==
    [t EXCEPT !.release_timer = IF @ > 0 THEN @ - 1 ELSE 0,
              !.boost_timer = IF @ > 0 THEN @ - 1 ELSE 0,
              !.boost_done = (t.boost_timer = 1),
              !.mode_timer = IF @ + 1 >= MODE_TIME THEN 0 ELSE @ + 1,
              !.mode = IF t.mode_timer + 1 >= MODE_TIME
                       THEN (IF @ = "scatter" THEN "chase" ELSE "scatter") ELSE @]

\* true during the tick in which the frighten duration elapses
CheckBoost(t) == t.boost_done

SetBoost(t) == [t EXCEPT !.boost_timer = BOOST_TIME, !.boost_level = 0]

SetStart(t) == [t EXCEPT !.start_timer = START_TIME]

SetRelease(t) == [t EXCEPT !.release_timer = RELEASE_TIME]

GameMode(S) == S.timers.mode

(***************************************************************************)
(* Ghost controllers (controls.py).  S is the game state record, g the     *)
(* ghost's index in GHOST_CONTROLLERS and gh its controller record:        *)
(* [state, mode, frightened, next_tile, next_direction, home_timer, actor] *)
(***************************************************************************)
ScatterTarget(g) ==
    CASE g = Blinky -> <<25, 0>>
      [] g = Pinky -> <<2, 0>>
      [] g = Inky -> <<27, 35>>
      [] g = Clyde -> <<0, 35>>

BlinkyChaseTarget(S) == ActorTile(S.player)

\* PinkyChaseTarget without the special case for a player heading up
PinkyChaseTarget_NoQuirk(S) == Add(ActorTile(S.player), Scale(4, S.player.direction))

PinkyChaseTarget(S) ==
    IF S.player.direction # DIRECTION("up")
    THEN Add(ActorTile(S.player), Scale(4, S.player.direction))
    ELSE Add(ActorTile(S.player), <<-4, -4>>)

InkyChaseTarget(S) ==
    LET pivot == Add(ActorTile(S.player), Scale(2, S.player.direction))
    IN Sub(pivot, Sub(ActorTile(S.ghosts[Blinky].actor), pivot))

ClydeChaseTarget(S, gh) ==
    IF grid_distance(ActorTile(gh.actor), ActorTile(S.player)) > 8 * 8
    THEN ActorTile(S.player)
    ELSE <<0, 35>>

ChaseTarget(S, g, gh) ==
    CASE g = Blinky -> BlinkyChaseTarget(S)
      [] g = Pinky -> PinkyChaseTarget(S)
      [] g = Inky -> InkyChaseTarget(S)
      [] g = Clyde -> ClydeChaseTarget(S, gh)

BlinkyCheckActive(S) == TRUE

\* PinkyCheckActive without the test of lost_life
PinkyCheckActive_AnyLife(S) == S.dot_counter >= 7

PinkyCheckActive(S) == IF S.lost_life THEN S.dot_counter >= 7 ELSE FALSE

InkyCheckActive(S) == IF ~S.lost_life THEN S.dot_counter >= 30 ELSE S.dot_counter >= 17

ClydeCheckActive(S) == IF ~S.lost_life THEN S.dot_counter >= 60 ELSE S.dot_counter >= 32

CheckActive(S, g) ==
    CASE g = Blinky -> BlinkyCheckActive(S)
      [] g = Pinky -> PinkyCheckActive(S)
      [] g = Inky -> InkyCheckActive(S)
      [] g = Clyde -> ClydeCheckActive(S)

\* InitialState with PinkyController.__init__ leaving the base class's state
InitialState_PinkyInactive(g) ==
    CASE g = Blinky -> "active"
      [] g = Pinky -> "inactive"
      [] g = Inky -> "inactive"
      [] g = Clyde -> "inactive"

\* the state each controller's __init__ leaves
InitialState(g) ==
    CASE g = Blinky -> "active"
      [] g = Pinky -> "home"
      [] g = Inky -> "inactive"
      [] g = Clyde -> "inactive"

\* ResetDefault with the overrides of reset missing in the subclasses
ResetDefault_BaseOnly(g) == "active"

\* the default of reset's state parameter
ResetDefault(g) == IF g = Blinky THEN "active" ELSE "inactive"

NewGhost(g, mode) ==
    [state |-> InitialState(g), mode |-> mode, frightened |-> FALSE,
     next_tile |-> None, next_direction |-> None, home_timer |-> 0,
     actor |-> NewActor(GHOST_POS[g])]

\* Qualifies without the test for bad tiles
Qualifies_NoBadTiles(S, gh, candidate) ==
    /\ within_grid(candidate)
    /\ candidate # ActorTile(gh.actor)

\* the candidate test shared by control_target and control_fright
Qualifies(S, gh, candidate) ==
    /\ within_grid(candidate)
    /\ candidate # ActorTile(gh.actor)
    /\ TileAt(S.grid, candidate) \notin BAD_TILES

\* TargetDistance measuring to the chase target in every mode
TargetDistance_ChaseOnly(S, g, gh, candidate) ==
    grid_distance(candidate, ChaseTarget(S, g, gh))

TargetDistance(S, g, gh, candidate) ==
    IF gh.mode = "scatter" THEN grid_distance(candidate, ScatterTarget(g))
    ELSE grid_distance(candidate, ChaseTarget(S, g, gh))

\* the loop of control_target from the i-th direction on; acc = <<direction, best>>,
\* best = -1 standing for None
RECURSIVE TargetScan(_, _, _, _, _)
TargetScan(S, g, gh, i, acc) ==
    IF i > Len(DIRECTION_ORDER) THEN acc[1]
    ELSE LET direction == DIRECTION(DIRECTION_ORDER[i])
             candidate == Add(gh.next_tile, direction)
         IN IF ~Qualifies(S, gh, candidate) THEN TargetScan(S, g, gh, i + 1, acc)
            ELSE LET distance == TargetDistance(S, g, gh, candidate)
                 IN IF acc[2] = -1 \/ distance < acc[2]
                    THEN TargetScan(S, g, gh, i + 1, <<direction, distance>>)
                    ELSE TargetScan(S, g, gh, i + 1, acc)

ControlTarget(S, g, gh) ==
    [gh EXCEPT !.next_direction = TargetScan(S, g, gh, 1, <<Neg(gh.actor.direction), -1>>)]

FrightCandidates(S, gh) ==
    SelectSeq([i \in 1..Len(DIRECTION_ORDER) |-> DIRECTION(DIRECTION_ORDER[i])],
              LAMBDA d : Qualifies(S, gh, Add(gh.next_tile, d)))

\* r is the draw of random.choice
ControlFright(S, gh, r) ==
    LET candidates == FrightCandidates(S, gh)
    IN IF candidates # <<>>
       THEN [gh EXCEPT !.next_direction = candidates[((r - 1) % Len(candidates)) + 1]]
       ELSE [gh EXCEPT !.next_direction = Neg(gh.actor.direction)]

ControlHome(gh) ==
    IF gh.actor.position = DEFAULT_POS THEN [gh EXCEPT !.state = "active"]
    ELSE IF gh.actor.position[1] = DEFAULT_POS[1]
    THEN [gh EXCEPT !.actor.position = Lerp(@, DEFAULT_POS, gh.actor.speed)]
    ELSE [gh EXCEPT !.actor.position = Lerp(@, GHOST_POS[Pinky], gh.actor.speed)]

\* SyncMode done by a call of reset('inactive'), which also forces the state
SyncMode_ByReset(S, gh) ==
    IF gh.mode # GameMode(S)
    THEN [gh EXCEPT !.next_tile = None, !.next_direction = None, !.state = "inactive",
                    !.actor = ActorResetDirection(@), !.mode = GameMode(S)]
    ELSE gh

\* SyncMode adopting the mode but keeping the pending decision
SyncMode_KeepPending(S, gh) ==
    IF gh.mode # GameMode(S) THEN [gh EXCEPT !.mode = GameMode(S)] ELSE gh

\* the mode-change test at the top of control's active branch
SyncMode(S, gh) ==
    IF gh.mode # GameMode(S)
    THEN [gh EXCEPT !.next_tile = None, !.next_direction = None,
                    !.actor = ActorResetDirection(@), !.mode = GameMode(S)]
    ELSE gh

\* ControlActive deciding on every call, without the test of the pending tile
ControlActive_EveryFrame(S, g, gh, r) ==
    LET g1 == SyncMode(S, gh)
        tile == ActorTile(g1.actor)
        g2 == [g1 EXCEPT !.actor = ActorChangeDirection(@, S.grid, g1.next_direction)]
        g3 == [g2 EXCEPT !.next_tile =
                           IF @ = None THEN tile ELSE Add(tile, g2.next_direction)]
    IN IF ~g3.frightened THEN ControlTarget(S, g, g3) ELSE ControlFright(S, g3, r)

ControlActive(S, g, gh, r) ==
    LET g1 == SyncMode(S, gh)
        tile == ActorTile(g1.actor)
    IN IF g1.next_tile # None /\ tile # g1.next_tile THEN g1
       ELSE LET g2 == [g1 EXCEPT !.actor = ActorChangeDirection(@, S.grid, g1.next_direction)]
                g3 == [g2 EXCEPT !.next_tile =
                                   IF @ = None THEN tile ELSE Add(tile, g2.next_direction)]
            IN IF ~g3.frightened THEN ControlTarget(S, g, g3) ELSE ControlFright(S, g3, r)

\* Control releasing an inactive ghost straight to 'active'
Control_SkipHome(S, g, gh, r) ==
    IF gh.state = "active" THEN ControlActive(S, g, gh, r)
    ELSE IF gh.state = "home" THEN ControlHome(gh)
    ELSE IF gh.state = "inactive" /\ CheckActive(S, g) THEN [gh EXCEPT !.state = "active"]
    ELSE gh

Control(S, g, gh, r) ==
    IF gh.state = "active" THEN ControlActive(S, g, gh, r)
    ELSE IF gh.state = "home" THEN ControlHome(gh)
    ELSE IF gh.state = "inactive" /\ CheckActive(S, g) THEN [gh EXCEPT !.state = "home"]
    ELSE gh

\* SetFrightened halving the speed on every call with true
SetFrightened_EveryCall(gh, is_frightened) ==
    IF is_frightened
    THEN [gh EXCEPT !.actor.colour = FRIGHT, !.actor.speed = @ \div 2, !.mode = "",
                    !.frightened = is_frightened]
    ELSE IF gh.frightened /\ ~is_frightened
    THEN [gh EXCEPT !.actor.colour = NORMAL, !.actor.speed = DEFAULT_SPEED, !.mode = "",
                    !.frightened = is_frightened]
    ELSE [gh EXCEPT !.frightened = is_frightened]

\* set_frightened: edge-triggered on the flag
SetFrightened(gh, is_frightened) ==
    IF ~gh.frightened /\ is_frightened
    THEN [gh EXCEPT !.actor.colour = FRIGHT, !.actor.speed = @ \div 2, !.mode = "",
                    !.frightened = is_frightened]
    ELSE IF gh.frightened /\ ~is_frightened
    THEN [gh EXCEPT !.actor.colour = NORMAL, !.actor.speed = DEFAULT_SPEED, !.mode = "",
                    !.frightened = is_frightened]
    ELSE [gh EXCEPT !.frightened = is_frightened]

\* Reset clearing the frightened flag as well
Reset_Calm(S, gh, state) ==
    [gh EXCEPT !.next_tile = None, !.next_direction = None, !.state = state,
               !.mode = GameMode(S), !.frightened = FALSE]

Reset(S, gh, state) ==
    [gh EXCEPT !.next_tile = None, !.next_direction = None, !.state = state,
               !.mode = GameMode(S)]

\* InputController.control: ev is Game.state.events
PlayerControl(a, g, ev) ==
    IF ev = None \/ ev = <<>> THEN a
    ELSE IF ev[1].type = "keydown" THEN ActorChangeDirection(a, g, DIRECTION(ev[1].key))
    ELSE a

(***************************************************************************)
(* The simulation tick (game_runner.py).  S carries the game state and,    *)
(* in its log_ fields, a record of what the tick did.                      *)
(***************************************************************************)
Pack ==
    [grid |-> grid, lives |-> lives, score |-> score, dot_counter |-> dot_counter,
     lost_life |-> lost_life, timers |-> timers, player |-> player, ghosts |-> ghosts,
     log_expired |-> FALSE, log_controlled |-> <<>>, log_tested |-> <<>>,
     log_hits |-> <<>>, log_broke |-> FALSE, log_consumed |-> "none",
     log_tile |-> None, log_score |-> 0, log_dots |-> 0]

\* what a collision is observed to change
Snap(S, g) ==
    [score |-> S.score, level |-> S.timers.boost_level, lives |-> S.lives,
     dots |-> S.dot_counter, lost_life |-> S.lost_life,
     frightened |-> S.ghosts[g].frightened, state |-> S.ghosts[g].state]

LoseLife(S) ==
    [S EXCEPT !.lost_life = TRUE,
              !.dot_counter = 0,
              !.lives = @ - 1,
              !.timers = SetRelease(SetStart(@)),
              !.player = ActorReset(@, PLAYER_POS),
              !.ghosts = [g \in GHOSTS |->
                            [Reset(S, S.ghosts[g], ResetDefault(g))
                               EXCEPT !.actor = ActorReset(@, GHOST_POS[g])]]]

\* EatGhost scoring after the level is incremented
EatGhost_ScoreAfterIncrement(S, g) ==
    [S EXCEPT !.ghosts[g] = [SetFrightened(@, FALSE)
                               EXCEPT !.home_timer = HOME_TIME,
                                      !.state = "home",
                                      !.actor = ActorReset(@, HOME_POS)],
              !.score = @ + GHOST_SCORE[S.timers.boost_level + 2],
              !.timers.boost_level = @ + 1]

\* EatGhost leaving the eaten ghost frightened
EatGhost_StaysFrightened(S, g) ==
    [S EXCEPT !.ghosts[g] = [@ EXCEPT !.home_timer = HOME_TIME,
                                      !.state = "home",
                                      !.actor = ActorReset(@, HOME_POS)],
              !.score = @ + GHOST_SCORE[S.timers.boost_level + 1],
              !.timers.boost_level = @ + 1]

EatGhost(S, g) ==
    [S EXCEPT !.ghosts[g] = [SetFrightened(@, FALSE)
                               EXCEPT !.home_timer = HOME_TIME,
                                      !.state = "home",
                                      !.actor = ActorReset(@, HOME_POS)],
              !.score = @ + GHOST_SCORE[S.timers.boost_level + 1],
              !.timers.boost_level = @ + 1]

Hit(S, T, g, kind) ==
    [T EXCEPT !.log_hits = Append(@, [ghost |-> g, kind |-> kind,
                                      before |-> Snap(S, g), after |-> Snap(T, g)])]

\* Collision without the break after lose_life
Collision_NoBreak(S, g) ==
    LET is_collide == Colliderect(S.player.position, S.ghosts[g].actor.position)
        T == [S EXCEPT !.log_tested = Append(@, g)]
    IN IF is_collide /\ T.ghosts[g].frightened THEN Hit(T, EatGhost(T, g), g, "eat")
       ELSE IF is_collide THEN Hit(T, LoseLife(T), g, "kill")
       ELSE T

\* the collision test of one ghost and its two branches; log_broke is the break
Collision(S, g) ==
    LET is_collide == Colliderect(S.player.position, S.ghosts[g].actor.position)
        T == [S EXCEPT !.log_tested = Append(@, g)]
    IN IF is_collide /\ T.ghosts[g].frightened THEN Hit(T, EatGhost(T, g), g, "eat")
       ELSE IF is_collide THEN [Hit(T, LoseLife(T), g, "kill") EXCEPT !.log_broke = TRUE]
       ELSE T

\* ExpireBoost with the expiry seen by the first ghost of the loop only
ExpireBoost_FirstOnly(S, g) ==
    IF CheckBoost(S.timers) /\ g = Blinky
    THEN [S EXCEPT !.ghosts[g] = SetFrightened(@, FALSE), !.log_expired = TRUE]
    ELSE S

\* the boost-expiry test at the top of the ghost loop's body
ExpireBoost(S, g) ==
    IF CheckBoost(S.timers)
    THEN [S EXCEPT !.ghosts[g] = SetFrightened(@, FALSE), !.log_expired = TRUE]
    ELSE S

\* one iteration of the ghost loop; r is the fright-mode draw of this ghost
GhostStep(S, g, r) ==
    LET S1 == ExpireBoost(S, g)
        S2 == [S1 EXCEPT !.ghosts[g] = Control(S1, g, @, r)]
        S3 == [S2 EXCEPT !.ghosts[g].actor = ActorUpdate(@, S2.grid),
                         !.log_controlled = Append(@, g)]
    IN Collision(S3, g)

\* GhostLoop enumerating the ghosts from the last to the first
RECURSIVE GhostLoop_Reversed(_, _, _)
GhostLoop_Reversed(S, g, rnd) ==
    IF g > Len(GHOST_POS) \/ S.log_broke THEN S
    ELSE GhostLoop_Reversed(GhostStep(S, Len(GHOST_POS) + 1 - g, rnd[Len(GHOST_POS) + 1 - g]),
                            g + 1, rnd)

RECURSIVE GhostLoop(_, _, _)
GhostLoop(S, g, rnd) ==
    IF g > Len(GHOST_POS) \/ S.log_broke THEN S
    ELSE GhostLoop(GhostStep(S, g, rnd[g]), g + 1, rnd)

\* Consume with a dot scored but not counted
Consume_DotNotCounted(S) ==
    LET tile == ActorTile(S.player)
        T == [S EXCEPT !.log_tile = tile, !.log_score = S.score, !.log_dots = S.dot_counter]
    IN IF TileAt(S.grid, tile) = DOT
       THEN [T EXCEPT !.grid = SetTile(@, tile, EMPTY),
                      !.score = @ + DOT_SCORE,
                      !.log_consumed = DOT]
       ELSE IF TileAt(S.grid, tile) = BOOST
       THEN [T EXCEPT !.grid = SetTile(@, tile, EMPTY),
                      !.score = @ + BOOST_SCORE,
                      !.timers = SetBoost(@),
                      !.ghosts = [g \in GHOSTS |-> SetFrightened(S.ghosts[g], TRUE)],
                      !.log_consumed = BOOST]
       ELSE T

\* Consume with a boost frightening the active ghosts only
Consume_ActiveOnly(S) ==
    LET tile == ActorTile(S.player)
        T == [S EXCEPT !.log_tile = tile, !.log_score = S.score, !.log_dots = S.dot_counter]
    IN IF TileAt(S.grid, tile) = DOT
       THEN [T EXCEPT !.grid = SetTile(@, tile, EMPTY),
                      !.score = @ + DOT_SCORE,
                      !.dot_counter = @ + 1,
                      !.log_consumed = DOT]
       ELSE IF TileAt(S.grid, tile) = BOOST
       THEN [T EXCEPT !.grid = SetTile(@, tile, EMPTY),
                      !.score = @ + BOOST_SCORE,
                      !.timers = SetBoost(@),
                      !.ghosts = [g \in GHOSTS |->
                                    IF S.ghosts[g].state = "active"
                                    THEN SetFrightened(S.ghosts[g], TRUE) ELSE S.ghosts[g]],
                      !.log_consumed = BOOST]
       ELSE T

\* tile collisions
Consume(S) ==
    LET tile == ActorTile(S.player)
        T == [S EXCEPT !.log_tile = tile, !.log_score = S.score, !.log_dots = S.dot_counter]
    IN IF TileAt(S.grid, tile) = DOT
       THEN [T EXCEPT !.grid = SetTile(@, tile, EMPTY),
                      !.score = @ + DOT_SCORE,
                      !.dot_counter = @ + 1,
                      !.log_consumed = DOT]
       ELSE IF TileAt(S.grid, tile) = BOOST
       THEN [T EXCEPT !.grid = SetTile(@, tile, EMPTY),
                      !.score = @ + BOOST_SCORE,
                      !.timers = SetBoost(@),
                      !.ghosts = [g \in GHOSTS |-> SetFrightened(S.ghosts[g], TRUE)],
                      !.log_consumed = BOOST]
       ELSE T

CheckWin(g) == ~\E y \in 1..Len(g) : \E x \in 1..Len(g[y]) : g[y][x] \in {DOT, BOOST}

\* Terminal with the lives test off by one
Terminal_LivesBelowZero(S) == S.lives < 0 \/ CheckWin(S.grid)

\* the value update() returns after a tick that was not gated
Terminal(S) == S.lives <= 0 \/ CheckWin(S.grid)

\* update() past the start gate
Tick(S, ev, rnd) ==
    LET S1 == [S EXCEPT !.timers = TimersUpdate(@)]
        S2 == [S1 EXCEPT !.player = ActorUpdate(PlayerControl(@, S1.grid, ev), S1.grid)]
    IN Consume(GhostLoop(S2, 1, rnd))

\* the draws random.choice can make for ghost g in one tick
Draws(gs, g) ==
    IF gs[g].frightened /\ gs[g].state = "active" THEN 1..Len(DIRECTION_ORDER) ELSE {1}

RandomDraws(gs) ==
    {<<r1, r2, r3, r4>> : r1 \in Draws(gs, Blinky), r2 \in Draws(gs, Pinky),
                          r3 \in Draws(gs, Inky), r4 \in Draws(gs, Clyde)}

LogOf(S, gated, terminal) ==
    [gated |-> gated, terminal |-> terminal, expired |-> S.log_expired,
     controlled |-> S.log_controlled, tested |-> S.log_tested, hits |-> S.log_hits,
     consumed |-> S.log_consumed, tile |-> S.log_tile, score |-> S.log_score,
     dots |-> S.log_dots]

(***************************************************************************)
(* The game: one iteration of Game.run's loop polls the input              *)
(* (handle_input) and runs one tick (update).  state.events is written by  *)
(* every poll before update reads it, so it is an input of the iteration.  *)
(***************************************************************************)
PollEvents ==
    {<<>>, <<[type |-> "quit"]>>} \cup {<<[type |-> "keydown", key |-> k]>> : k \in Keys}

\* handle_input's return value: whether the program is quit
IsQuit(ev) == ev # <<>> /\ ev[1].type = "quit"

\* handle_input's effect on the timers: a key press opens the start gate
HandleInput(t, ev) ==
    IF ev # <<>> /\ ev[1].type = "keydown" THEN [t EXCEPT !.start_timer = 0] ELSE t

Init ==
    /\ pc = "loop"
    /\ grid = DEFAULT_GRID
    /\ lives \in 0..MaxLives
    /\ score = 0
    /\ dot_counter = 0
    /\ lost_life = FALSE
    /\ timers = NewTimers
    /\ player = NewActor(PLAYER_POS)
    /\ ghosts = [g \in GHOSTS |-> NewGhost(g, NewTimers.mode)]
    /\ last = LogOf(Pack, TRUE, FALSE)

\* handle_input reports quit: the loop breaks before update
Quit ==
    /\ pc = "loop"
    /\ pc' = "quit"
    /\ UNCHANGED <<grid, lives, score, dot_counter, lost_life, timers, player, ghosts, last>>

\* UpdateGated with the timers advanced before the start gate is queried
UpdateGated_TimersFirst ==
    /\ pc = "loop"
    /\ \E ev \in PollEvents :
         /\ ~IsQuit(ev)
         /\ CheckStart(HandleInput(timers, ev))
         /\ timers' = AfterCheckStart(TimersUpdate(HandleInput(timers, ev)))
    /\ pc' = "loop"
    /\ last' = LogOf(Pack, TRUE, FALSE)
    /\ UNCHANGED <<grid, lives, score, dot_counter, lost_life, player, ghosts>>

\* an iteration whose update() finds the start gate closed
UpdateGated ==
    /\ pc = "loop"
    /\ \E ev \in PollEvents :
         /\ ~IsQuit(ev)
         /\ CheckStart(HandleInput(timers, ev))
         /\ timers' = AfterCheckStart(HandleInput(timers, ev))
    /\ pc' = "loop"
    /\ last' = LogOf(Pack, TRUE, FALSE)
    /\ UNCHANGED <<grid, lives, score, dot_counter, lost_life, player, ghosts>>

\* an iteration whose update() runs past the start gate
UpdateRun ==
    /\ pc = "loop"
    /\ \E ev \in PollEvents :
         /\ ~IsQuit(ev)
         /\ ~CheckStart(HandleInput(timers, ev))
         /\ \E rnd \in RandomDraws(ghosts) :
              \E S \in {Tick([Pack EXCEPT !.timers = HandleInput(@, ev)], ev, rnd)} :
                 /\ grid' = S.grid
                 /\ lives' = S.lives
                 /\ score' = S.score
                 /\ dot_counter' = S.dot_counter
                 /\ lost_life' = S.lost_life
                 /\ timers' = S.timers
                 /\ player' = S.player
                 /\ ghosts' = S.ghosts
                 /\ last' = LogOf(S, FALSE, Terminal(S))
                 /\ pc' = IF Terminal(S) THEN "done" ELSE "loop"

Next == Quit \/ UpdateGated \/ UpdateRun

Spec == Init /\ [][Next]_vars

(***************************************************************************)
(* Properties.  last is the record of the latest update(): last.hits lists *)
(* its ghost collisions in order, each with the state just before and just *)
(* after it.                                                               *)
(***************************************************************************)
Hits == {last.hits[i] : i \in 1..Len(last.hits)}

Kills == {h \in Hits : h.kind = "kill"}

Eats == {h \in Hits : h.kind = "eat"}

\* the tiles that still hold a dot or a boost, counted tile by tile
Remaining(g) ==
    {t \in (0..(GridW - 1)) \X (0..(GridH - 1)) : TileAt(g, t) = DOT \/ TileAt(g, t) = BOOST}

\* C1: in a tick where the player overlaps a ghost that is not frightened,
\* lose_life runs exactly once: lives decreases by exactly 1, dot_counter
\* becomes 0, lost_life becomes true, every ghost's pending tile and pending
\* direction are unset, and no ghost later in the processing order is
\* controlled, moved or tested for collision in that tick.
C1_LoseLifeOnceAndBreak ==
    \A h \in Kills :
        /\ Cardinality(Kills) = 1
        /\ last.hits[Len(last.hits)] = h
        /\ ~h.before.frightened
        /\ h.after.lives = h.before.lives - 1
        /\ h.after.dots = 0
        /\ h.after.lost_life
        /\ lives = h.after.lives /\ dot_counter = 0 /\ lost_life
        /\ \A g \in GHOSTS : ghosts[g].next_tile = None /\ ghosts[g].next_direction = None
        /\ last.tested = [i \in 1..h.ghost |-> i]
        /\ last.controlled = last.tested

\* a life was lost to a ghost that is not the last of the processing order
C1_Witness ==
    \E h \in Kills : h.ghost < Clyde /\ Len(last.tested) = h.ghost /\ h.before.dots > 0

\* C2: when the player overlaps a frightened ghost, that ghost's frightened
\* flag becomes false, its state becomes 'home', score increases by the
\* score-table entry of the boost level held before the collision, the boost
\* level increases by exactly 1, and lives and dot_counter are unchanged.
C2_EatFrightenedGhost ==
    /\ \A h \in Eats :
        /\ h.before.frightened /\ ~h.after.frightened
        /\ h.after.state = "home"
        /\ h.after.score = h.before.score + GHOST_SCORE[h.before.level + 1]
        /\ h.after.level = h.before.level + 1
        /\ h.after.lives = h.before.lives
        /\ h.after.dots = h.before.dots
        /\ Kills = {} => ghosts[h.ghost].state = "home"
    /\ (Len(last.hits) = 1 /\ Kills = {} /\ last.consumed = "none") =>
          /\ score = last.hits[1].after.score
          /\ timers.boost_level = last.hits[1].after.level
          /\ lives = last.hits[1].before.lives
          /\ dot_counter = last.hits[1].before.dots
          /\ ~ghosts[last.hits[1].ghost].frightened

\* a ghost was eaten at a boost level above zero
C2_Witness == \E h \in Eats : h.before.level > 0 /\ h.before.state = "active"

\* C3: when the player's tile at the consumption step is a dot, the tile
\* becomes empty, score increases by exactly the dot score and dot_counter by
\* exactly 1; check_win() is true exactly when no dot or boost tile remains,
\* so the tick that eats the last consumable tile reports the win.
C3_EatDot ==
    /\ last.consumed = DOT =>
          /\ TileAt(grid, last.tile) = EMPTY
          /\ score = last.score + DOT_SCORE
          /\ dot_counter = last.dots + 1
    /\ CheckWin(grid) <=> Remaining(grid) = {}
    /\ (last.consumed # "none" /\ Remaining(grid) = {}) => last.terminal /\ pc = "done"

\* the last consumable tile eaten was a dot, with lives left
C3_Witness == last.consumed = DOT /\ Remaining(grid) = {} /\ lives > 0 /\ pc = "done"

\* C4: when the player's tile at the consumption step is a boost, the tile
\* becomes empty, score increases by exactly the boost score, the boost timer
\* is started, every ghost is frightened at the end of the tick whatever its
\* state, and dot_counter is not incremented.
C4_EatBoost ==
    last.consumed = BOOST =>
        /\ TileAt(grid, last.tile) = EMPTY
        /\ score = last.score + BOOST_SCORE
        /\ timers.boost_timer = BOOST_TIME
        /\ \A g \in GHOSTS : ghosts[g].frightened
        /\ dot_counter = last.dots

\* a boost was eaten with ghosts inactive, at home and active
C4_Witness ==
    /\ last.consumed = BOOST
    /\ \E g \in GHOSTS : ghosts[g].state = "inactive"
    /\ \E g \in GHOSTS : ghosts[g].state = "home"
    /\ \E g \in GHOSTS : ghosts[g].state = "active"

C6_GatedTickChangesNothing ==
    [][(pc = "loop" /\ pc' # "quit" /\ last'.gated) =>
          /\ pc' = "loop" /\ ~last'.terminal
          /\ UNCHANGED <<grid, lives, score, dot_counter, lost_life, player, ghosts>>
          /\ timers' = [timers EXCEPT !.start_timer = timers'.start_timer]]_vars

\* a gated tick has run with no lives left
C6_Witness ==
    /\ pc = "loop" /\ last.gated /\ lives <= 0
    /\ timers.start_timer = START_TIME - 1

\* C7: a tick that is not start-gated reports terminal exactly when, at its
\* end, lives <= 0 or no dot or boost tile remains; the tick in which the
\* last life is lost reports terminal itself and ends the loop.
C7_TerminalExactly ==
    /\ ~last.gated => (last.terminal <=> (lives <= 0 \/ Remaining(grid) = {}))
    /\ last.terminal <=> pc = "done"
    /\ \A h \in Kills : h.after.lives <= 0 => last.terminal /\ pc = "done"

\* the last life was lost while consumable tiles remain
C7_Witness ==
    \E h \in Kills : h.before.lives = 1 /\ lives = 0 /\ Remaining(grid) # {} /\ pc = "done"

\* C8 as stated: once a ghost is 'active' it stays 'active' until a life is
\* lost; nothing else, being eaten included, takes it out of 'active'.
C8_Original ==
    [][\A g \in GHOSTS :
         (ghosts[g].state = "active" /\ lives' = lives) => ghosts'[g].state = "active"]_vars

\* C8 amended: once a ghost is 'active' it stays 'active' until a life is
\* lost or the ghost is eaten while frightened, which sets its state to 'home'.
C8_ActiveUntilResetOrEaten ==
    [][\A g \in GHOSTS :
         (ghosts[g].state = "active" /\ lives' = lives) =>
            \/ ghosts'[g].state = "active"
            \/ /\ ghosts'[g].state = "home"
               /\ \E i \in 1..Len(last'.hits) :
                     last'.hits[i].kind = "eat" /\ last'.hits[i].ghost = g]_vars

\* an active ghost went through a change of the global mode with no collision
C8_Witness ==
    /\ ~last.gated /\ last.hits = <<>>
    /\ ghosts[Pinky].state = "active" /\ ghosts[Pinky].next_tile # None
    /\ timers.mode = "chase" /\ ghosts[Pinky].mode = "chase"

\* the state right after Game.run has built the round
AtCreation == ~lost_life /\ timers.start_timer = START_TIME /\ score = 0

\* C9 as stated: at creation every ghost controller is 'inactive' except
\* variant A (Blinky), which is 'active'.
C9_Original ==
    AtCreation =>
        \A g \in GHOSTS : ghosts[g].state = (IF g = Blinky THEN "active" ELSE "inactive")

\* C9 amended: at creation variant A (Blinky) is 'active', variant B (Pinky)
\* is 'home', and variants C and D are 'inactive'.
C9_CreatedStates ==
    AtCreation =>
        /\ ghosts[Blinky].state = "active"
        /\ ghosts[Pinky].state = "home"
        /\ ghosts[Inky].state = "inactive"
        /\ ghosts[Clyde].state = "inactive"

\* a round was created
C9_Witness == AtCreation /\ pc = "loop" /\ ghosts[Pinky].state = "home"

(***************************************************************************)
(* A ghost controller on its own: one controller (last.variant) is driven  *)
(* through at most MaxOps of its methods in any order, on an open grid or  *)
(* on the map, with the game state it reads drawn at the start.  last.ops  *)
(* lists the calls made and last.pre is the state before the latest one.   *)
(***************************************************************************)
OPEN_GRID == [y \in 1..GridH |-> [x \in 1..GridW |-> EMPTY]]

\* the (dot_counter, lost_life) pairs the controller is driven under
CtlCounters == {<<0, FALSE>>, <<7, TRUE>>, <<30, FALSE>>, <<60, FALSE>>}

\* the player directions the controller is driven under
CtlPlayerDirections == {ZERO, DIRECTION("up"), DIRECTION("left")}

\* the controller as control_home leaves it on release from the house
Released(g, mode) ==
    [NewGhost(g, mode) EXCEPT !.state = "active", !.actor.position = DEFAULT_POS]

CtlLog(g, ops, pre) == [variant |-> g, ops |-> ops, pre |-> pre]

CtlInit ==
    /\ pc = "ctl"
    /\ grid \in {OPEN_GRID, DEFAULT_GRID}
    /\ lives = 1
    /\ score = 0
    /\ \E c \in CtlCounters : dot_counter = c[1] /\ lost_life = c[2]
    /\ \E d \in CtlPlayerDirections : player = [NewActor(PLAYER_POS) EXCEPT !.direction = d]
    /\ \E g \in GHOSTS, m \in {"scatter", "chase"} :
         /\ timers = [NewTimers EXCEPT !.mode = m, !.start_timer = 0]
         /\ \E gh \in {NewGhost(g, m), Released(g, m)} :
              /\ ghosts = [h \in GHOSTS |-> IF h = g THEN gh ELSE NewGhost(h, m)]
              /\ last = CtlLog(g, <<>>, gh.state)

\* controller.reset() and controller.actor.reset(), as lose_life calls them
CtlReset ==
    /\ pc = "ctl" /\ Len(last.ops) < MaxOps
    /\ ghosts' = [ghosts EXCEPT ![last.variant] =
                    [Reset(Pack, @, ResetDefault(last.variant))
                       EXCEPT !.actor = ActorReset(@, GHOST_POS[last.variant])]]
    /\ last' = CtlLog(last.variant, Append(last.ops, "reset"), ghosts[last.variant].state)
    /\ UNCHANGED <<pc, grid, lives, score, dot_counter, lost_life, timers, player>>

\* ghost.control(grid) and ghost.actor.update(grid), as the ghost loop calls them
CtlControl ==
    /\ pc = "ctl" /\ Len(last.ops) < MaxOps
    /\ \E r \in Draws(ghosts, last.variant) :
         ghosts' = [ghosts EXCEPT ![last.variant] =
                      [Control(Pack, last.variant, @, r)
                         EXCEPT !.actor = ActorUpdate(@, grid)]]
    /\ last' = CtlLog(last.variant, Append(last.ops, "control"), ghosts[last.variant].state)
    /\ UNCHANGED <<pc, grid, lives, score, dot_counter, lost_life, timers, player>>

\* ghost.set_frightened(v)
CtlSetFrightened ==
    /\ pc = "ctl" /\ Len(last.ops) < MaxOps
    /\ \E v \in BOOLEAN :
         ghosts' = [ghosts EXCEPT ![last.variant] = SetFrightened(@, v)]
    /\ last' = CtlLog(last.variant,
                      Append(last.ops, IF ghosts'[last.variant].frightened
                                       THEN "frighten" ELSE "calm"),
                      ghosts[last.variant].state)
    /\ UNCHANGED <<pc, grid, lives, score, dot_counter, lost_life, timers, player>>

\* the global scatter/chase phase changes
CtlModeChange ==
    /\ pc = "ctl" /\ Len(last.ops) < MaxOps
    /\ timers' = [timers EXCEPT !.mode = IF @ = "scatter" THEN "chase" ELSE "scatter"]
    /\ last' = CtlLog(last.variant, Append(last.ops, "mode"), ghosts[last.variant].state)
    /\ UNCHANGED <<pc, grid, lives, score, dot_counter, lost_life, player, ghosts>>

CtlNext == CtlReset \/ CtlControl \/ CtlSetFrightened \/ CtlModeChange

CtlSpec == CtlInit /\ [][CtlNext]_vars

\* the controller under test
Tested == ghosts[last.variant]

\* the latest call was control(), made right after reset()
ResetThenControl ==
    /\ Len(last.ops) >= 2
    /\ last.ops[Len(last.ops) - 1] = "reset"
    /\ last.ops[Len(last.ops)] = "control"

\* C10 as stated: for every variant, reset() followed by one control() call
\* on an empty, fully open grid leaves pending_direction non-null.
C10_Original ==
    (ResetThenControl /\ grid = OPEN_GRID) => Tested.next_direction # None

\* C10 amended: reset() followed by one control() call leaves
\* pending_direction non-null for variant A, whose reset state is 'active';
\* for variants B, C and D reset() leaves the ghost 'inactive' and the
\* control() call leaves pending_direction null, moving the ghost at most to
\* 'home'.  A control() call on a ghost that is already 'active' always
\* leaves pending_tile and pending_direction non-null.
C10_ResetThenControl ==
    /\ (ResetThenControl /\ last.variant = Blinky) =>
          Tested.state = "active" /\ Tested.next_direction # None
    /\ (ResetThenControl /\ last.variant # Blinky) =>
          Tested.state \in {"inactive", "home"} /\ Tested.next_direction = None
    /\ (last.ops # <<>> /\ last.ops[Len(last.ops)] = "control" /\ last.pre = "active") =>
          /\ Tested.state = "active"
          /\ Tested.next_tile # None /\ Tested.next_direction # None

\* on the open grid, reset() and control() were called on variant A, which
\* took a decision
C10_Witness ==
    /\ ResetThenControl /\ grid = OPEN_GRID /\ last.variant = Blinky
    /\ Tested.next_direction \in {DIRECTION(k) : k \in Keys}

\* the latest call made on the controller under test
LastOp == IF last.ops = <<>> THEN "" ELSE last.ops[Len(last.ops)]

\* the step is a call of the method named op
Called(op) == Len(last'.ops) = Len(last.ops) + 1 /\ last'.ops[Len(last'.ops)] = op

\* the controller under test holds a decision stored by control_target
TargetDecision ==
    /\ Tested.state = "active" /\ ~Tested.frightened
    /\ Tested.mode = timers.mode /\ Tested.next_tile # None
    /\ "control" \in {last.ops[i] : i \in 1..Len(last.ops)}

\* C11: the direction d that control_target stores as pending_direction
\* satisfies: pending_tile + d is inside the grid and is neither a wall nor
\* a door tile, also when no candidate qualifies and the reverse of the
\* actor's direction is kept.
C11_TargetDirectionLegal ==
    TargetDecision =>
        /\ Tested.next_direction # None
        /\ within_grid(Add(Tested.next_tile, Tested.next_direction))
        /\ TileAt(grid, Add(Tested.next_tile, Tested.next_direction)) \notin BAD_TILES

\* in a dead end of the map no candidate qualified and the reverse of the
\* actor's direction was kept
C11_Witness ==
    /\ TargetDecision /\ LastOp = "control" /\ grid = DEFAULT_GRID
    /\ Tested.actor.direction # ZERO
    /\ Tested.next_direction = Neg(Tested.actor.direction)
    /\ \A k \in Keys :
          \/ Add(Tested.next_tile, DIRECTION(k)) = Add(Tested.next_tile, Tested.next_direction)
          \/ ~Passable(grid, Add(Tested.next_tile, DIRECTION(k)))

\* C12: set_frightened(v) called when the flag already equals v changes
\* neither speed, colour nor mode; a call that changes the flag clears mode;
\* so after any sequence of calls the speed is the original speed, or half
\* of it exactly while the ghost is frightened.
C12_SetFrightenedIdempotent ==
    /\ [](Tested.actor.speed = IF Tested.frightened THEN DEFAULT_SPEED \div 2
                                                    ELSE DEFAULT_SPEED)
    /\ [][(Called("frighten") \/ Called("calm")) =>
            /\ ghosts'[last.variant].frightened = (last'.ops[Len(last'.ops)] = "frighten")
            /\ (ghosts'[last.variant].frightened = ghosts[last.variant].frightened) =>
                  ghosts' = ghosts
            /\ (ghosts'[last.variant].frightened # ghosts[last.variant].frightened) =>
                  ghosts'[last.variant].mode = ""]_vars

\* set_frightened(true) was called twice in a row
C12_Witness ==
    /\ Len(last.ops) >= 2
    /\ last.ops[Len(last.ops) - 1] = "frighten" /\ last.ops[Len(last.ops)] = "frighten"
    /\ Tested.frightened /\ Tested.actor.speed = DEFAULT_SPEED \div 2
    /\ Tested.actor.colour = FRIGHT

(***************************************************************************)
(* The activation rules on their own: dot_counter and lost_life are driven *)
(* as the game drives them, by the dot branch of update()'s consumption    *)
(* step on a board that still has dots, and by lose_life; last.active is   *)
(* what each variant's check_active() returns after the step.              *)
(***************************************************************************)
ActLog(S, op) == [op |-> op, active |-> [g \in GHOSTS |-> CheckActive(S, g)]]

ActInit ==
    /\ pc = "act"
    /\ grid = DEFAULT_GRID
    /\ lives = MaxLives
    /\ score = 0
    /\ dot_counter = 0
    /\ lost_life = FALSE
    /\ timers = [NewTimers EXCEPT !.start_timer = 0]
    /\ player = NewActor(PLAYER_POS)
    /\ ghosts = [g \in GHOSTS |-> NewGhost(g, NewTimers.mode)]
    /\ last = ActLog(Pack, "init")

\* the consumption step with a dot on the player's tile
ActEatDot ==
    /\ pc = "act" /\ dot_counter < MaxDots
    /\ \E S \in {Consume([Pack EXCEPT !.grid = SetTile(@, ActorTile(player), DOT)])} :
         /\ score' = S.score
         /\ dot_counter' = S.dot_counter
         /\ last' = ActLog(S, "eat_dot")
    /\ UNCHANGED <<pc, grid, lives, lost_life, timers, player, ghosts>>

\* lose_life()
ActLoseLife ==
    /\ pc = "act" /\ lives > 0
    /\ \E S \in {LoseLife(Pack)} :
         /\ lives' = S.lives
         /\ dot_counter' = S.dot_counter
         /\ lost_life' = S.lost_life
         /\ timers' = S.timers
         /\ player' = S.player
         /\ ghosts' = S.ghosts
         /\ last' = ActLog(S, "lose_life")
    /\ UNCHANGED <<pc, grid, score>>

ActNext == ActEatDot \/ ActLoseLife

ActSpec == ActInit /\ [][ActNext]_vars

\* C13: check_active() is the table's threshold predicate of each variant
\* (A: always true; B: lost_life and dot_counter >= 7; C: dot_counter >= 30
\* if not lost_life else >= 17; D: dot_counter >= 60 if not lost_life else
\* >= 32), and once true it stays true along a run until a life is lost.
C13_CheckActiveTable ==
    /\ [](/\ last.active[Blinky]
          /\ last.active[Pinky] <=> (lost_life /\ dot_counter >= 7)
          /\ ~lost_life => ~last.active[Pinky]
          /\ last.active[Inky] <=> (dot_counter >= IF lost_life THEN 17 ELSE 30)
          /\ last.active[Clyde] <=> (dot_counter >= IF lost_life THEN 32 ELSE 60))
    /\ [][\A g \in GHOSTS :
            /\ (last.active[g] /\ lost_life' = lost_life /\ dot_counter' >= dot_counter)
                  => last'.active[g]
            /\ (last.active[g] /\ ~last'.active[g]) => last'.op = "lose_life"]_vars

\* in the first life dot_counter has just reached the threshold of variant D
C13_Witness ==
    /\ pc = "act" /\ ~lost_life /\ dot_counter = 60
    /\ last.op = "eat_dot" /\ last.active[Clyde] /\ ~last.active[Pinky]

\* C14: variant B's chase target equals player_tile + (-4,-4) exactly when
\* the player's direction is up, and player_tile + 4*direction for every
\* other player direction, the zero direction included.
C14_PinkyChaseTarget ==
    /\ player.direction = DIRECTION("up") =>
          PinkyChaseTarget(Pack) = Add(ActorTile(player), <<-4, -4>>)
    /\ player.direction # DIRECTION("up") =>
          PinkyChaseTarget(Pack) = Add(ActorTile(player), Scale(4, player.direction))
    /\ PinkyChaseTarget(Pack) = Add(ActorTile(player), <<-4, -4>>)
          <=> player.direction = DIRECTION("up")
    /\ ChaseTarget(Pack, Pinky, ghosts[Pinky]) = PinkyChaseTarget(Pack)

\* variant B took a chase decision in a tick with the player heading up
C14_Witness ==
    /\ ~last.gated /\ last.hits = <<>>
    /\ \E i \in 1..Len(last.controlled) : last.controlled[i] = Pinky
    /\ ghosts[Pinky].state = "active" /\ ~ghosts[Pinky].frightened
    /\ ghosts[Pinky].mode = "chase" /\ ghosts[Pinky].next_direction # None
    /\ player.direction = DIRECTION("up")

\* the controller under test before and after a step
Before == ghosts[last.variant]

After == ghosts'[last.variant]

\* an active controller whose stored mode is the global mode holds a pending tile
Settled == Before.state = "active" /\ Before.mode = timers.mode /\ Before.next_tile # None

\* C15: for an active ghost whose stored mode equals the global mode, a
\* control() call made while pending_tile is set and the actor's tile differs
\* from it leaves pending_tile, pending_direction, state and mode unchanged
\* and requests no direction change; a new decision is taken only on a call
\* where the actor's tile equals pending_tile.
C15_DecideOncePerTile ==
    [][(Called("control") /\ Settled) =>
          /\ ActorTile(Before.actor) # Before.next_tile =>
                /\ After.next_tile = Before.next_tile
                /\ After.next_direction = Before.next_direction
                /\ After.state = Before.state /\ After.mode = Before.mode
                /\ After.actor = ActorUpdate(Before.actor, grid)
          /\ ActorTile(Before.actor) = Before.next_tile =>
                After.next_tile = Add(Before.next_tile, Before.next_direction)
          /\ (\/ After.next_tile # Before.next_tile
              \/ After.next_direction # Before.next_direction
              \/ After.actor.direction # Before.actor.direction) =>
                ActorTile(Before.actor) = Before.next_tile]_vars

\* a frightened ghost, at half speed, took two ticks to cross to its pending
\* tile: the call in between took no decision
C15_Witness ==
    /\ last.ops = <<"frighten", "control", "control", "control">>
    /\ last.pre = "active" /\ Tested.frightened
    /\ Tested.actor.direction = DIRECTION("right")
    /\ Tested.actor.position = Add(DEFAULT_POS, Scale(TILE, DIRECTION("right")))
    /\ Tested.next_tile = ActorTile(Tested.actor)

\* C16: when an active ghost's stored mode differs from the global mode at
\* the start of control(), the call discards the pending decision, resets the
\* actor's direction, adopts the global mode and takes a fresh decision
\* anchored at the actor's current tile; after every control() call on an
\* active ghost its stored mode equals the global mode and pending_tile is set.
C16_ModeChangeRedecides ==
    /\ []((LastOp = "control" /\ last.pre = "active") =>
             /\ Tested.state = "active"
             /\ Tested.mode = timers.mode
             /\ Tested.next_tile # None /\ Tested.next_direction # None)
    /\ [][(Called("control") /\ Before.state = "active" /\ Before.mode # timers.mode) =>
            /\ After.mode = timers.mode
            /\ After.next_tile = ActorTile(Before.actor)
            /\ After.actor = ActorResetDirection(Before.actor)
            /\ \/ After.next_direction = ZERO
               \/ /\ After.next_direction \in {DIRECTION(k) : k \in Keys}
                  /\ Passable(grid, Add(After.next_tile, After.next_direction))]_vars

\* the global mode changed while a ghost on its way held a pending tile
\* ahead of it: the next call stopped it and decided anew at its own tile
C16_Witness ==
    /\ last.ops = <<"control", "control", "mode", "control">>
    /\ last.pre = "active" /\ ~Tested.frightened
    /\ ActorTile(Tested.actor) # ActorTile(NewActor(DEFAULT_POS))
    /\ Tested.next_tile = ActorTile(Tested.actor)
    /\ Tested.actor.direction = ZERO
    /\ Tested.next_direction \in {DIRECTION(k) : k \in Keys}

\* the candidates of a decision at pending tile nt by an actor on tile: the
\* indices into DIRECTION_ORDER of the directions whose tile qualifies
Candidates(gr, nt, tile) ==
    {i \in 1..Len(DIRECTION_ORDER) :
        LET c == Add(nt, DIRECTION(DIRECTION_ORDER[i]))
        IN within_grid(c) /\ c # tile /\ TileAt(gr, c) \notin BAD_TILES}

\* the distance from the tile of the i-th direction to target
CandidateDistance(nt, i, target) ==
    grid_distance(Add(nt, DIRECTION(DIRECTION_ORDER[i])), target)

\* the direction of minimum distance to target, the earliest in the canonical
\* order among equals, or fallback when there is no candidate
BestDirection(gr, nt, tile, target, fallback) ==
    IF Candidates(gr, nt, tile) = {} THEN fallback
    ELSE DIRECTION(DIRECTION_ORDER[
           CHOOSE i \in Candidates(gr, nt, tile) :
              \A j \in Candidates(gr, nt, tile) :
                 \/ CandidateDistance(nt, i, target) < CandidateDistance(nt, j, target)
                 \/ /\ CandidateDistance(nt, i, target) = CandidateDistance(nt, j, target)
                    /\ i <= j])

\* gh decides in this call of control(): it is active and has no pending tile
\* left, has reached it, or sees another global mode
Decides(gh, mode) ==
    /\ gh.state = "active"
    /\ gh.mode # mode \/ gh.next_tile = None \/ ActorTile(gh.actor) = gh.next_tile

\* C17: when at least one candidate qualifies, control_target stores the
\* direction whose candidate tile has the minimum straight-line distance to
\* the scatter target in scatter mode and to the chase target otherwise,
\* among the candidates that are in the grid, not the actor's tile and not a
\* bad tile; among equals the earliest in the canonical order is chosen.
C17_GreedyMinimum ==
    [][(Called("control") /\ Decides(Before, timers.mode) /\ ~Before.frightened) =>
          After.next_direction =
             BestDirection(grid, After.next_tile, ActorTile(Before.actor),
                           IF After.mode = "scatter" THEN ScatterTarget(last.variant)
                           ELSE ChaseTarget(Pack, last.variant, Before),
                           Neg(After.actor.direction))]_vars

\* on the open grid variant B, in scatter mode, found up and left at the same
\* distance from its corner and chose up, the earlier in the order
C17_Witness ==
    /\ last.ops = <<"control">> /\ last.pre = "active" /\ last.variant = Pinky
    /\ grid = OPEN_GRID /\ Tested.mode = "scatter" /\ ~Tested.frightened
    /\ CandidateDistance(Tested.next_tile, 1, ScatterTarget(Pinky))
          = CandidateDistance(Tested.next_tile, 2, ScatterTarget(Pinky))
    /\ {1, 2} \subseteq Candidates(grid, Tested.next_tile, ActorTile(Tested.actor))
    /\ Tested.next_direction = DIRECTION("up")

\* C19: a control() call on a ghost in state 'inactive' takes no movement
\* decision: it leaves pending_tile, pending_direction, mode and the actor
\* unchanged and changes state to 'home' exactly when check_active() is true,
\* never to 'active'; a single control() call advances the state by at most
\* one step along inactive -> home -> active.
C19_InactiveControl ==
    [][Called("control") =>
          /\ Before.state = "inactive" =>
                /\ After.next_tile = Before.next_tile
                /\ After.next_direction = Before.next_direction
                /\ After.mode = Before.mode
                /\ After.actor = Before.actor
                /\ After.state = IF CheckActive(Pack, last.variant) THEN "home"
                                                                     ELSE "inactive"
          /\ Before.state = "home" => After.state \in {"home", "active"}
          /\ Before.state = "active" => After.state = "active"]_vars

\* variant C, inactive with dot_counter at its threshold, was moved to 'home'
C19_Witness ==
    /\ LastOp = "control" /\ last.pre = "inactive" /\ last.variant = Inky
    /\ dot_counter = 30 /\ ~lost_life
    /\ Tested.state = "home" /\ Tested.next_tile = None
    /\ Tested.actor.position = GHOST_POS[Inky]

(***************************************************************************)
(* A round in progress: the game from the moment thirty dots of a larger   *)
(* board have been eaten in the first life, DEFAULT_GRID being the part of *)
(* the board that is left.  Variant C's activation rule holds, so the game *)
(* itself takes it from 'inactive' through 'home' to 'active'.             *)
(***************************************************************************)
RoundInit ==
    /\ pc = "loop"
    /\ grid = DEFAULT_GRID
    /\ lives = MaxLives
    /\ score = 30 * DOT_SCORE
    /\ dot_counter = 30
    /\ lost_life = FALSE
    /\ timers \in {[NewTimers EXCEPT !.start_timer = 0, !.mode = m] : m \in {"scatter", "chase"}}
    /\ player = NewActor(PLAYER_POS)
    /\ ghosts = [g \in GHOSTS |-> NewGhost(g, timers.mode)]
    /\ last = LogOf(Pack, TRUE, FALSE)

RoundSpec == RoundInit /\ [][Next]_vars

\* the step is an update() that ran past the start gate
Ticked == pc = "loop" /\ pc' # "quit" /\ ~last'.gated

\* variant C's chase target computed from the tiles the tick leaves
InkyTargetAfter ==
    LET pivot == Add(ActorTile(player'), Scale(2, player'.direction))
    IN Add(pivot, Sub(pivot, ActorTile(ghosts'[Blinky].actor)))

InkyTargetStale ==
    LET pivot == Add(ActorTile(player), Scale(2, player.direction))
    IN Add(pivot, Sub(pivot, Sub(ActorTile(ghosts[Blinky].actor),
                                 ghosts[Blinky].actor.direction)))

LifeLostIn(l) == \E i \in 1..Len(l.hits) : l.hits[i].kind = "kill"

\* the tick recorded in l ran the ghost loop's body for ghost g
ControlledIn(l, g) == \E i \in 1..Len(l.controlled) : l.controlled[i] = g

\* the tick recorded in l had ghost g eaten
EatenIn(l, g) == \E i \in 1..Len(l.hits) : l.hits[i].kind = "eat" /\ l.hits[i].ghost = g

\* C20: reset() of a ghost controller, and therefore lose_life, leaves the
\* frightened flag unchanged: a ghost skipped by the collision short-circuit
\* of a tick that loses a life keeps its flag over that tick, and a
\* frightened ghost stays frightened until the boost expiry or being eaten
\* clears the flag.
C20_ResetKeepsFrightened ==
    [][\A g \in GHOSTS :
         /\ (Ticked /\ LifeLostIn(last') /\ ~ControlledIn(last', g)) =>
               ghosts'[g].frightened = ghosts[g].frightened
         /\ (ghosts[g].frightened /\ ~ghosts'[g].frightened) =>
               \/ Ticked /\ last'.expired /\ ControlledIn(last', g)
               \/ Ticked /\ EatenIn(last', g)]_vars

\* a life was lost while a ghost later in the order was frightened: it was
\* reset with the others and is still frightened
C20_Witness ==
    /\ lost_life /\ ~last.gated
    /\ \E h \in Kills : \E g \in GHOSTS :
          /\ g > h.ghost /\ ~ControlledIn(last, g)
          /\ ghosts[g].frightened
          /\ ghosts[g].state = ResetDefault(g) /\ ghosts[g].mode = timers.mode
          /\ ghosts[g].actor.position = GHOST_POS[g]

(***************************************************************************)
(* A round in progress on a board with two boosts left: sixty dots of a    *)
(* larger board have been eaten in the first life, so the activation rules *)
(* of variants C and D both hold and all four ghosts come into play.       *)
(***************************************************************************)
BOOST_GRID ==
    << <<WALL, WALL,  WALL,  WALL,  WALL,  WALL, WALL>>,
       <<WALL, EMPTY, BOOST, EMPTY, BOOST, WALL, WALL>>,
       <<WALL, EMPTY, WALL,  DOOR,  WALL,  WALL, WALL>>,
       <<WALL, WALL,  EMPTY, EMPTY, EMPTY, WALL, WALL>>,
       <<WALL, WALL,  WALL,  WALL,  WALL,  WALL, WALL>> >>

BoostInit ==
    /\ pc = "loop"
    /\ grid = BOOST_GRID
    /\ lives = MaxLives
    /\ score = 60 * DOT_SCORE
    /\ dot_counter = 60
    /\ lost_life = FALSE
    /\ timers = [NewTimers EXCEPT !.start_timer = 0]
    /\ player = NewActor(PLAYER_POS)
    /\ ghosts = [g \in GHOSTS |-> NewGhost(g, timers.mode)]
    /\ last = LogOf(Pack, TRUE, FALSE)

BoostSpec == BoostInit /\ [][Next]_vars

\* the ghosts whose frightened flag is clear
Calm == {g \in GHOSTS : ~ghosts[g].frightened}

====
